---- MODULE Spec2Model ----
(***************************************************************************)
(* SustainaMine LCA estimator (src/applications.py): a Streamlit script.   *)
(*                                                                         *)
(* The script is re-executed from the top on every interaction.  The       *)
(* state kept between two executions is the value of the form widgets,     *)
(* what the last execution rendered, and the files it wrote.               *)
(*                                                                         *)
(* Numbers.  The script computes in Python floats.  Here every real        *)
(* quantity is an exact decimal held as an integer count of thousandths    *)
(* (16.0 is 16000, 0.05 is 50, 14.88 is 14880).  Quantities that the       *)
(* script holds as Python ints (recycled_pct, transport_km,                *)
(* transport_tonnes, the literals 100 and 1000) stay plain integers.       *)
(* Every product and every division by 100 of the script is exact in       *)
(* thousandths.  The one quotient that is not, the division by             *)
(* transport_tonnes on line 161, is held as an exact fraction of           *)
(* thousandths in lowest terms.                                            *)
(***************************************************************************)
EXTENDS Integers, Sequences, FiniteSets, TLC

VARIABLES form, ns, screen, pdf_file, last

vars == <<form, ns, screen, pdf_file, last>>

(***************************************************************************)
(* Decimal arithmetic in thousandths.                                      *)
(***************************************************************************)
\* the decimal literal i.mmm (m given in thousandths)
Real(i, m) == i * 1000 + m

\* float * float
FMul(a, b) == (a * b) \div 1000

Min(a, b) == IF a <= b THEN a ELSE b

RECURSIVE GCD(_, _)
GCD(a, b) == IF b = 0 THEN a ELSE GCD(b, a % b)

\* float / int where the quotient is no whole number of thousandths: the
\* exact quotient n / d, in lowest terms
Fraction(n, d) == [num |-> n \div GCD(n, d), den |-> d \div GCD(n, d)]

(***************************************************************************)
(* default_factors, lines 81-96.                                           *)
(***************************************************************************)
aluminium_virgin_kgco2_per_kg == Real(16, 0)
aluminium_recycled_kgco2_per_kg == Real(4, 0)
copper_virgin_kgco2_per_kg == Real(8, 0)
copper_recycled_kgco2_per_kg == Real(2, 0)
red_mud_t_per_t_aluminium == Real(1, 500)
so2_kg_per_t_copper == Real(25, 0)
transport_kgco2_per_tkm == Real(0, 50)
recycle_cost_usd_per_t_aluminium == Real(200, 0)
recycle_cost_usd_per_t_copper == Real(300, 0)

(***************************************************************************)
(* The input form, lines 106-119: the choices and numeric ranges the       *)
(* widgets enforce, and the values they start with.                        *)
(***************************************************************************)
Metals == {"Aluminium", "Copper"}
Routes == {"Virgin/Raw", "Recycled", "Mixed"}
EnergySources == {"Coal-based grid", "Mixed grid", "Renewable-heavy"}
EolOptions == {"Landfill", "Recycling", "Reuse"}
StoragePractices ==
    {"Proper authorized storage", "Temporary open storage", "Untreated disposal"}

min_recycled_pct == 0
max_recycled_pct == 100
default_recycled_pct == 30
min_transport_km == 0
max_transport_km == 5000
default_transport_km == 200
min_transport_tonnes == 1
max_transport_tonnes == 10000
default_transport_tonnes == 1

\* largest transport quantity explored
TonnesBound == 5

RecycledPctValues == min_recycled_pct..max_recycled_pct

\* the slider's lowest, default and highest distance
TransportKmValues == {min_transport_km, default_transport_km, max_transport_km}

\* the quantity widget with min_value=0, as the distance widget has
TransportTonnesValuesFromZero == 0..TonnesBound

\* the quantities explored for the transport quantity widget
TransportTonnesValues ==
    {t \in min_transport_tonnes..TonnesBound : t <= max_transport_tonnes}

\* every submission the form accepts (within the explored quantities)
InRangeInputs ==
    [metal : Metals, production_route : Routes, recycled_pct : RecycledPctValues,
     energy_source : EnergySources, transport_km : TransportKmValues,
     transport_tonnes : TransportTonnesValues, eol_option : EolOptions,
     storage_practice : StoragePractices]

\* the widgets' values on first load: first option of each selectbox, the
\* number widgets' value= arguments
DefaultInputs ==
    [metal |-> "Aluminium", production_route |-> "Virgin/Raw",
     recycled_pct |-> default_recycled_pct, energy_source |-> "Coal-based grid",
     transport_km |-> default_transport_km,
     transport_tonnes |-> default_transport_tonnes, eol_option |-> "Landfill",
     storage_practice |-> "Proper authorized storage"]

(***************************************************************************)
(* The estimator, lines 121-187, one operator per computed variable.       *)
(***************************************************************************)
\* the Mixed route with the two weights exchanged
BaselineWeightsSwapped(metal, production_route, recycled_pct) ==
    LET v == IF metal = "Aluminium" THEN aluminium_virgin_kgco2_per_kg
             ELSE copper_virgin_kgco2_per_kg
        r == IF metal = "Aluminium" THEN aluminium_recycled_kgco2_per_kg
             ELSE copper_recycled_kgco2_per_kg
    IN  IF production_route = "Virgin/Raw" THEN v
        ELSE IF production_route = "Recycled" THEN r
        ELSE (v * recycled_pct) \div 100 + (r * (100 - recycled_pct)) \div 100

\* lines 127-134 and 138-144: baseline kg CO2e per kg
Baseline(metal, production_route, recycled_pct) ==
    IF metal = "Aluminium"
    THEN IF production_route = "Virgin/Raw"
         THEN aluminium_virgin_kgco2_per_kg
         ELSE IF production_route = "Recycled"
         THEN aluminium_recycled_kgco2_per_kg
         ELSE (aluminium_virgin_kgco2_per_kg * (100 - recycled_pct)) \div 100
              + (aluminium_recycled_kgco2_per_kg * recycled_pct) \div 100
    ELSE IF production_route = "Virgin/Raw"
         THEN copper_virgin_kgco2_per_kg
         ELSE IF production_route = "Recycled"
         THEN copper_recycled_kgco2_per_kg
         ELSE (copper_virgin_kgco2_per_kg * (100 - recycled_pct)) \div 100
              + (copper_recycled_kgco2_per_kg * recycled_pct) \div 100

\* lines 136 and 145
RedMudT(metal, transport_tonnes) ==
    IF metal = "Aluminium"
    THEN red_mud_t_per_t_aluminium * transport_tonnes
    ELSE 0

\* the coal and renewable multipliers exchanged
EnergyFactorMultiplierSwapped(energy_source) ==
    IF energy_source = "Coal-based grid" THEN Real(0, 800)
    ELSE IF energy_source = "Mixed grid" THEN Real(1, 0)
    ELSE Real(1, 200)

\* lines 148-156
EnergyFactorMultiplier(energy_source) ==
    IF energy_source = "Coal-based grid" THEN Real(1, 200)
    ELSE IF energy_source = "Mixed grid" THEN Real(1, 0)
    ELSE Real(0, 800)

\* line 159
Kgco2PerKg(baseline, energy_factor_multiplier) ==
    FMul(baseline, energy_factor_multiplier)

\* line 161: 0.05 * km * (t / (t if t > 0 else 1)) / t.  The last division
\* raises ZeroDivisionError for t = 0.
TransportEmissionPerKgFails(transport_tonnes) == transport_tonnes = 0

\* the quotient of the two true divisions, num / den thousandths
TransportEmissionPerKg(transport_km, transport_tonnes) ==
    LET d == IF transport_tonnes > 0 THEN transport_tonnes ELSE 1
    IN  Fraction(transport_kgco2_per_tkm * transport_km * transport_tonnes,
                 d * transport_tonnes)

\* line 163
TransportKgco2PerTon(transport_km) ==
    transport_kgco2_per_tkm * transport_km

\* the per-kg figure added without the conversion to a tonne
TotalCo2PerTonneUnscaled(kgco2_per_kg, transport_kgco2_per_ton) ==
    kgco2_per_kg + transport_kgco2_per_ton

\* line 165
TotalCo2PerTonne(kgco2_per_kg, transport_kgco2_per_ton) ==
    (kgco2_per_kg * 1000) + transport_kgco2_per_ton

\* the end-of-life bonus subtracted instead of added
CircularityBonusSubtracted(recycled_pct, eol_option) ==
    LET c0 == recycled_pct * Real(0, 500)
        c1 == IF eol_option = "Recycling" THEN c0 - Real(30, 0)
              ELSE IF eol_option = "Reuse" THEN c0 - Real(40, 0)
              ELSE c0
    IN  Min(Real(100, 0), c1)

\* the Recycling and Reuse bonuses exchanged
CircularityBonusSwapped(recycled_pct, eol_option) ==
    LET c0 == recycled_pct * Real(0, 500)
        c1 == IF eol_option = "Recycling" THEN c0 + Real(40, 0)
              ELSE IF eol_option = "Reuse" THEN c0 + Real(30, 0)
              ELSE c0
    IN  Min(Real(100, 0), c1)

\* lines 168-173
Circularity(recycled_pct, eol_option) ==
    LET c0 == recycled_pct * Real(0, 500)
        c1 == IF eol_option = "Recycling" THEN c0 + Real(30, 0)
              ELSE IF eol_option = "Reuse" THEN c0 + Real(40, 0)
              ELSE c0
    IN  Min(Real(100, 0), c1)

\* the SO2 estimate computed whatever the metal
So2KgTotalAnyMetal(metal, transport_tonnes) ==
    so2_kg_per_t_copper * transport_tonnes

\* lines 176-179
So2KgTotal(metal, transport_tonnes) ==
    IF metal = "Copper" THEN so2_kg_per_t_copper * transport_tonnes ELSE 0

\* lines 182-187
RecycleCost(metal, transport_tonnes) ==
    IF metal = "Aluminium" THEN recycle_cost_usd_per_t_aluminium * transport_tonnes
    ELSE IF metal = "Copper" THEN recycle_cost_usd_per_t_copper * transport_tonnes
    ELSE 0

\* the low-circularity test with <= for <
FlagsThresholdInclusive(storage_practice, metal, red_mud_t, so2_kg_total, circularity) ==
    (IF storage_practice # "Proper authorized storage"
     THEN <<"Storage practice">> ELSE <<>>)
    \o (IF metal = "Aluminium" /\ red_mud_t > 0
        THEN <<"Red mud handling">> ELSE <<>>)
    \o (IF metal = "Copper" /\ so2_kg_total > 0
        THEN <<"Air emissions">> ELSE <<>>)
    \o (IF circularity <= Real(40, 0) THEN <<"Circularity">> ELSE <<>>)

\* lines 219-227: the flags' categories, in the order they are appended
Flags(storage_practice, metal, red_mud_t, so2_kg_total, circularity) ==
    (IF storage_practice # "Proper authorized storage"
     THEN <<"Storage practice">> ELSE <<>>)
    \o (IF metal = "Aluminium" /\ red_mud_t > 0
        THEN <<"Red mud handling">> ELSE <<>>)
    \o (IF metal = "Copper" /\ so2_kg_total > 0
        THEN <<"Air emissions">> ELSE <<>>)
    \o (IF circularity < Real(40, 0) THEN <<"Circularity">> ELSE <<>>)

\* lines 233-238: the recommendations, each named by its subject
Recs(metal) ==
    <<"Increase recycled feedstock", "Red mud neutralization & valorization">>
    \o (IF metal = "Copper" THEN <<"SO2 capture">> ELSE <<>>)
    \o <<"Engage with local SPCB/CPCB">>

\* lines 125-187: the variables the block has assigned when it ends, or when
\* line 161 raises
Estimator(inp) ==
    LET baseline == Baseline(inp.metal, inp.production_route, inp.recycled_pct)
        red_mud_t == RedMudT(inp.metal, inp.transport_tonnes)
        energy_factor_multiplier == EnergyFactorMultiplier(inp.energy_source)
        kgco2_per_kg == Kgco2PerKg(baseline, energy_factor_multiplier)
        transport_kgco2_per_ton == TransportKgco2PerTon(inp.transport_km)
        circularity == Circularity(inp.recycled_pct, inp.eol_option)
        so2_kg_total == So2KgTotal(inp.metal, inp.transport_tonnes)
    IN  IF TransportEmissionPerKgFails(inp.transport_tonnes)
        THEN [error |-> "ZeroDivisionError",
              baseline |-> baseline,
              red_mud_t |-> red_mud_t,
              energy_factor_multiplier |-> energy_factor_multiplier,
              kgco2_per_kg |-> kgco2_per_kg]
        ELSE [error |-> "none",
              baseline |-> baseline,
              red_mud_t |-> red_mud_t,
              energy_factor_multiplier |-> energy_factor_multiplier,
              kgco2_per_kg |-> kgco2_per_kg,
              transport_emission_per_kg |->
                  TransportEmissionPerKg(inp.transport_km, inp.transport_tonnes),
              transport_kgco2_per_ton |-> transport_kgco2_per_ton,
              total_co2_per_tonne |->
                  TotalCo2PerTonne(kgco2_per_kg, transport_kgco2_per_ton),
              circularity |-> circularity,
              so2_kg_total |-> so2_kg_total,
              recycle_cost |-> RecycleCost(inp.metal, inp.transport_tonnes)]

(***************************************************************************)
(* One execution of the script.  trigger is the interaction that caused    *)
(* it: "load" (the page is opened), "submit" (the form's submit button)    *)
(* or "export" (the Export PDF Summary button).  A button reads True only  *)
(* in the execution its own press caused.  io_ok tells whether             *)
(* pdf.output can write its file.                                          *)
(***************************************************************************)
\* line 119: st.form_submit_button
RunButton(trigger) == trigger = "submit"

\* line 244: st.button("Export PDF Summary")
ExportButton(trigger) == trigger = "export"

\* lines 192-240: what the results block puts on the page
Rendered(inp, e) ==
    [metrics |-> <<e.kgco2_per_kg, e.total_co2_per_tonne, e.circularity,
                   e.recycle_cost>>,
     breakdown |-> <<e.kgco2_per_kg * 1000, e.transport_kgco2_per_ton,
                     e.total_co2_per_tonne>>,
     byproduct |-> IF inp.metal = "Aluminium"
                   THEN <<"Red mud", e.red_mud_t>>
                   ELSE <<"SO2", e.so2_kg_total>>,
     flags |-> Flags(inp.storage_practice, inp.metal, e.red_mud_t,
                     e.so2_kg_total, e.circularity),
     recs |-> Recs(inp.metal)]

\* lines 245-257: the document pdf.output writes
PdfSummary(inp, e) ==
    [inputs |-> inp,
     kgco2_per_kg |-> e.kgco2_per_kg,
     total_co2_per_tonne |-> e.total_co2_per_tonne,
     circularity |-> e.circularity,
     byproduct |-> IF inp.metal = "Aluminium"
                   THEN <<"Red mud", e.red_mud_t>>
                   ELSE <<"SO2", e.so2_kg_total>>]

\* the page below the form when the results block did not run
BlankScreen ==
    [results |-> <<>>, export_button |-> FALSE, success |-> FALSE,
     exception |-> "none"]

\* lines 121-258.  ns: the variables the execution assigned; screen: what it
\* rendered below the form; written: the file it wrote, if any.
ScriptRun(inp, trigger, io_ok) ==
    IF ~RunButton(trigger)
    THEN [ns |-> [run_button |-> FALSE], screen |-> BlankScreen, written |-> <<>>]
    ELSE LET e == Estimator(inp)
         IN  IF e.error # "none"
             THEN [ns |-> [run_button |-> TRUE] @@ e,
                   screen |-> [BlankScreen EXCEPT !.exception = e.error],
                   written |-> <<>>]
             ELSE IF ~ExportButton(trigger)
             THEN [ns |-> [run_button |-> TRUE] @@ e,
                   screen |-> [results |-> <<Rendered(inp, e)>>,
                               export_button |-> TRUE, success |-> FALSE,
                               exception |-> "none"],
                   written |-> <<>>]
             ELSE IF io_ok
             THEN [ns |-> [run_button |-> TRUE] @@ e,
                   screen |-> [results |-> <<Rendered(inp, e)>>,
                               export_button |-> TRUE, success |-> TRUE,
                               exception |-> "none"],
                   written |-> <<PdfSummary(inp, e)>>]
             ELSE [ns |-> [run_button |-> TRUE] @@ e,
                   screen |-> [results |-> <<Rendered(inp, e)>>,
                               export_button |-> TRUE, success |-> FALSE,
                               exception |-> "OSError"],
                   written |-> <<>>]

\* an execution's effect on the state
Execute(inp, trigger, io_ok) ==
    LET r == ScriptRun(inp, trigger, io_ok)
    IN  /\ form' = inp
        /\ ns' = r.ns
        /\ screen' = r.screen
        /\ pdf_file' = IF r.written # <<>> THEN r.written ELSE pdf_file
        /\ last' = trigger

(***************************************************************************)
(* The user's interactions.                                                *)
(***************************************************************************)
\* the submissions explored in a session: every choice of the selectboxes,
\* the slider at its lowest, default and highest, the default distance and
\* quantity
SessionInputs ==
    {v \in InRangeInputs :
        /\ v.recycled_pct \in {min_recycled_pct, default_recycled_pct, max_recycled_pct}
        /\ v.transport_km = default_transport_km
        /\ v.transport_tonnes = default_transport_tonnes}

\* the user fills the form and presses "Run LCA estimate"
Submit == \E v \in SessionInputs : Execute(v, "submit", TRUE)

\* the user presses "Run LCA estimate" on the form as it stands
Resubmit == Execute(form, "submit", TRUE)

\* the user presses "Export PDF Summary", which is on the page
PressExport ==
    /\ screen.export_button
    /\ \E io_ok \in BOOLEAN : Execute(form, "export", io_ok)

\* the page is opened: the script runs once with the widgets' defaults
Init ==
    /\ form = DefaultInputs
    /\ ns = ScriptRun(DefaultInputs, "load", TRUE).ns
    /\ screen = ScriptRun(DefaultInputs, "load", TRUE).screen
    /\ pdf_file = <<>>
    /\ last = "load"

Next == Submit \/ PressExport

Spec == Init /\ [][Next]_vars

\* the estimator as a function of its input: the form holds any in-range
\* input and is submitted
InitEstimator ==
    /\ form \in InRangeInputs
    /\ ns = ScriptRun(form, "load", TRUE).ns
    /\ screen = ScriptRun(form, "load", TRUE).screen
    /\ pdf_file = <<>>
    /\ last = "load"

NextEstimator == Resubmit

SpecEstimator == InitEstimator /\ [][NextEstimator]_vars

(***************************************************************************)
(* Properties.                                                             *)
(***************************************************************************)
\* the last execution ran the estimator block to its end
Ran == ns.run_button /\ ns.error = "none"

\* the flags on the page
ShownFlags == screen.results[1].flags

IsFlagged(category) == \E i \in 1..Len(ShownFlags) : ShownFlags[i] = category

\* C1: for every in-range input the circularity score lies in [0, 100].
CircularityInRange ==
    Ran => /\ ns.circularity >= 0
           /\ ns.circularity <= Real(100, 0)

CircularityInRangeWitness ==
    /\ Ran
    /\ form.recycled_pct = 100
    /\ form.eol_option = "Reuse"
    /\ ns.circularity = Real(90, 0)

\* C2: exactly one of red_mud_t and so2_kg_total is nonzero, chosen by metal
\* alone: Aluminium gives red_mud_t = 1.5 * tonnes > 0 and so2_kg_total = 0,
\* Copper gives so2_kg_total = 25 * tonnes > 0 and red_mud_t = 0.
ByproductByMetal ==
    Ran => /\ (ns.red_mud_t # 0) # (ns.so2_kg_total # 0)
           /\ form.metal = "Aluminium" =>
                 /\ ns.red_mud_t = Real(1, 500) * form.transport_tonnes
                 /\ ns.red_mud_t > 0
                 /\ ns.so2_kg_total = 0
           /\ form.metal = "Copper" =>
                 /\ ns.so2_kg_total = Real(25, 0) * form.transport_tonnes
                 /\ ns.so2_kg_total > 0
                 /\ ns.red_mud_t = 0

ByproductByMetalWitness ==
    /\ Ran
    /\ form.metal = "Copper"
    /\ form.transport_tonnes = 5
    /\ ns.so2_kg_total = Real(125, 0)
    /\ ns.red_mud_t = 0

\* C3: total_co2_per_tonne is co2_per_kg * 1000 + transport_km * 0.05, and
\* inputs that differ only in transport_tonnes have the same transport
\* contribution and the same total.
TotalPerTonneExact ==
    Ran => /\ ns.total_co2_per_tonne
                = ns.kgco2_per_kg * 1000 + form.transport_km * Real(0, 50)
           /\ \A t \in TransportTonnesValues :
                 LET other == Estimator([form EXCEPT !.transport_tonnes = t])
                 IN  /\ other.transport_kgco2_per_ton = ns.transport_kgco2_per_ton
                     /\ other.total_co2_per_tonne = ns.total_co2_per_tonne

TotalPerTonneExactWitness ==
    /\ Ran
    /\ form.transport_km = 5000
    /\ form.transport_tonnes = 5
    /\ ns.transport_kgco2_per_ton = Real(250, 0)
    /\ ns.total_co2_per_tonne = ns.kgco2_per_kg * 1000 + Real(250, 0)

\* C4: co2_per_kg is baseline * multiplier, the baseline being virgin[metal],
\* recycled[metal] or their interpolation by recycled_pct and the multiplier
\* 1.2, 1.0 or 0.8; Aluminium/Mixed/30/Coal/200 km gives 14.88 and 14890,
\* Copper/Virgin/Renewable/0 km gives 6.4 and 6400.
Co2PerKgByTable ==
    LET virgin == IF form.metal = "Aluminium" THEN Real(16, 0) ELSE Real(8, 0)
        recycled == IF form.metal = "Aluminium" THEN Real(4, 0) ELSE Real(2, 0)
        p == form.recycled_pct
        base == CASE form.production_route = "Virgin/Raw" -> virgin
                  [] form.production_route = "Recycled" -> recycled
                  [] form.production_route = "Mixed" ->
                        (virgin * (100 - p)) \div 100 + (recycled * p) \div 100
        mult == CASE form.energy_source = "Coal-based grid" -> 12
                  [] form.energy_source = "Mixed grid" -> 10
                  [] form.energy_source = "Renewable-heavy" -> 8
    IN  Ran =>
          /\ 10 * ns.kgco2_per_kg = base * mult
          /\ ( /\ form.metal = "Aluminium"
               /\ form.production_route = "Mixed"
               /\ form.recycled_pct = 30
               /\ form.energy_source = "Coal-based grid"
               /\ form.transport_km = 200 )
             => /\ ns.kgco2_per_kg = Real(14, 880)
                /\ ns.total_co2_per_tonne = Real(14890, 0)
          /\ ( /\ form.metal = "Copper"
               /\ form.production_route = "Virgin/Raw"
               /\ form.energy_source = "Renewable-heavy"
               /\ form.transport_km = 0 )
             => /\ ns.kgco2_per_kg = Real(6, 400)
                /\ ns.total_co2_per_tonne = Real(6400, 0)

Co2PerKgByTableWitness ==
    /\ Ran
    /\ form.metal = "Aluminium"
    /\ form.production_route = "Mixed"
    /\ form.recycled_pct = 30
    /\ form.energy_source = "Coal-based grid"
    /\ form.transport_km = 200
    /\ ns.kgco2_per_kg = Real(14, 880)

\* C5: on the Mixed route, with every other input fixed, the baseline does
\* not increase as recycled_pct grows over 0..100, for both metals.
MixedBaselineMonotone ==
    (Ran /\ form.production_route = "Mixed") =>
        \A q \in RecycledPctValues :
            q >= form.recycled_pct =>
                Estimator([form EXCEPT !.recycled_pct = q]).baseline <= ns.baseline

MixedBaselineMonotoneWitness ==
    /\ Ran
    /\ form.production_route = "Mixed"
    /\ form.metal = "Copper"
    /\ form.recycled_pct = 30
    /\ ns.baseline = Real(6, 200)
    /\ Estimator([form EXCEPT !.recycled_pct = 31]).baseline < ns.baseline

\* C6: the flags shown are exactly those of storage warning, red-mud
\* advisory, air-emissions advisory, low-circularity warning whose condition
\* holds, in that order: storage not authorized; metal Aluminium; metal
\* Copper; circularity < 40.
FlagsInFixedOrder ==
    LET Holds(category) ==
            CASE category = "Storage practice" ->
                    form.storage_practice # "Proper authorized storage"
              [] category = "Red mud handling" -> form.metal = "Aluminium"
              [] category = "Air emissions" -> form.metal = "Copper"
              [] category = "Circularity" -> ns.circularity < Real(40, 0)
    IN  Ran => ShownFlags =
                 SelectSeq(<<"Storage practice", "Red mud handling",
                             "Air emissions", "Circularity">>, Holds)

FlagsInFixedOrderWitness ==
    /\ Ran
    /\ form.metal = "Copper"
    /\ form.storage_practice = "Untreated disposal"
    /\ ns.circularity = 0
    /\ ShownFlags = <<"Storage practice", "Air emissions", "Circularity">>

\* C7: whenever the export button shown with an estimate's results is
\* pressed, the PDF for that estimate is written and success is signalled.
ExportWritesPdf ==
    last = "export" =>
        /\ pdf_file = <<PdfSummary(form, Estimator(form))>>
        /\ screen.success

\* C8: after the export button is pressed, the results of the submitted
\* estimate are still displayed in full and unchanged.
ExportKeepsResults ==
    last = "export" => screen.results = <<Rendered(form, Estimator(form))>>

\* C9: for in-range inputs no step of the estimator fails (the divisor
\* transport_tonnes is never zero) and baseline, red_mud_t, so2_kg_total,
\* recycle_cost and circularity are all assigned.
EstimatorNeverFails ==
    /\ form.transport_tonnes # 0
    /\ ns.run_button =>
          /\ ns.error = "none"
          /\ screen.exception = "none"
          /\ {"baseline", "red_mud_t", "so2_kg_total", "recycle_cost",
              "circularity", "transport_emission_per_kg"} \subseteq DOMAIN ns

EstimatorNeverFailsWitness ==
    /\ Ran
    /\ form.transport_tonnes = 3
    /\ form.transport_km = 200
    /\ ns.transport_emission_per_kg = [num |-> Real(10, 0), den |-> 3]
    /\ "recycle_cost" \in DOMAIN ns

\* C10: the circularity score never exceeds 90, and the low-circularity
\* warning is shown exactly when eol is Landfill with recycled_pct < 80 or
\* eol is Recycling with recycled_pct < 20, whatever the other inputs.
LowCircularityExactly ==
    Ran => /\ ns.circularity <= Real(90, 0)
           /\ IsFlagged("Circularity") <=>
                 \/ (form.eol_option = "Landfill" /\ form.recycled_pct < 80)
                 \/ (form.eol_option = "Recycling" /\ form.recycled_pct < 20)

LowCircularityExactlyWitness ==
    /\ Ran
    /\ form.eol_option = "Recycling"
    /\ form.recycled_pct = 19
    /\ ns.circularity = Real(39, 500)
    /\ IsFlagged("Circularity")

====
